---- MODULE Spec2Model ----
(***************************************************************************)
(* Model of the budgetyourtrip client: the field mapper of models.py       *)
(* (ApiObject._build, _get_from_dict, __eq__, the five record classes) and *)
(* the resource client of api.py (Api.__get_data, __build_response,        *)
(* __get_multiple and the eleven resource operations).                     *)
(*                                                                         *)
(* Python values are tagged records: [t |-> "null"] is None / JSON null,   *)
(* "num", "str", "list" and "doc" are the decoded JSON values, "obj" is an *)
(* ApiObject instance with its __dict__, "api" is the Api instance.  Each   *)
(* tag keeps its payload in a field of its own (n, s, l, d, b), so that    *)
(* two values of different Python types compare unequal whatever the order *)
(* in which the fields are compared.                                       *)
(* The result of a call is an outcome: a returned value or a raised        *)
(* exception, so that an exception escaping a handler is observable.       *)
(***************************************************************************)
EXTENDS Integers, Sequences, FiniteSets, TLC

VARIABLES
    remote,    \* the response the remote service gives to the client's GET
    call,      \* the operation under way or just ended, [op |-> "none"] if none
    response,  \* the response that call received
    result,    \* the outcome of that call: a returned value or an exception
    gets,      \* number of GETs issued through the session
    calls,     \* number of resource operations called
    prev       \* an earlier single-resource lookup and the result the caller
               \* kept of it, NoPrev if it kept none

vars == <<remote, call, response, result, gets, calls, prev>>

\* ---------------------------------------------------------------- bounds
\* Number of client calls in one behaviour.
MaxCalls == 2
\* Longest JSON list in a payload (multi-resource payloads, embedded costs).
MaxList == 2
\* Longest key-sequence path of a generated attribute mapping.
MaxPath == 2

\* ---------------------------------------------------------------- values
None == [t |-> "null"]
Num(n) == [t |-> "num", n |-> n]
Str(s) == [t |-> "str", s |-> s]
List(s) == [t |-> "list", l |-> s]
Doc(f) == [t |-> "doc", d |-> f]
Bool(b) == [t |-> "bool", b |-> b]
EmptyDoc == Doc(<<>>)
\* A response body that is not JSON text (response.json() raises ValueError).
NotJson == [t |-> "text"]
\* The Api instance handed to the records as their back-reference.
ApiSelf == [t |-> "api"]

Ret(v) == [k |-> "return", v |-> v]
Raise(e) == [k |-> "raise", exc |-> e]
Raised(o) == o.k = "raise"
\* Sequencing of two statements: an exception raised by the first ends the
\* handler, otherwise the second runs with the value of the first.
Bind(o, F(_)) == IF Raised(o) THEN o ELSE F(o.v)

\* Python truth value of a value (`if not data`, `if country_json['info']`).
Truthy(x) ==
    CASE x.t = "null" -> FALSE
      [] x.t = "num"  -> x.n /= 0
      [] x.t = "str"  -> x.s /= ""
      [] x.t = "list" -> Len(x.l) > 0
      [] x.t = "doc"  -> DOMAIN x.d /= {}
      [] x.t = "bool" -> x.b
      [] OTHER        -> TRUE

\* Python x[k] for a string key k: only a dict can be subscripted by a string;
\* a missing key is a KeyError, every other receiver a TypeError.
Subscript(x, k) ==
    IF x.t = "doc"
    THEN IF k \in DOMAIN x.d THEN Ret(x.d[k]) ELSE Raise("KeyError")
    ELSE Raise("TypeError")

RECURSIVE SetToSeq(_)
SetToSeq(S) ==
    IF S = {} THEN <<>>
    ELSE LET e == CHOOSE e \in S : TRUE IN <<e>> \o SetToSeq(S \ {e})

\* Python iteration (`for item in x`): a list yields its elements, a dict its
\* keys, a string its characters (the model's strings have at most one
\* character); a number or None is not iterable.
Iter(x) ==
    CASE x.t = "list" -> Ret(x.l)
      [] x.t = "doc"  -> Ret([i \in 1..Cardinality(DOMAIN x.d) |->
                               Str(SetToSeq(DOMAIN x.d)[i])])
      [] x.t = "str"  -> Ret(IF x.s = "" THEN <<>> ELSE <<x>>)
      [] OTHER        -> Raise("TypeError")

\* ---------------------------------------------------------- field mapper
RECURSIVE Walk(_, _)
\* models.py 67-68: for k in map_list: data_dict = data_dict[k]
Walk(data_dict, keys) ==
    IF keys = <<>> THEN Ret(data_dict)
    ELSE Bind(Subscript(data_dict, Head(keys)),
              LAMBDA value : Walk(value, Tail(keys)))

\* ApiObject._get_from_dict
get_from_dict(data_dict, map_list) ==
    IF map_list.t = "list"
    THEN Walk(data_dict, map_list.l)
    ELSE Subscript(data_dict, map_list.s)

\* The exceptions the `except` clause of _build catches.
BuildCatches(exc) == exc = "KeyError"

\* self.__dict__.update({key: value})
SetAttr(self, key, value) ==
    [self EXCEPT !.dict = (key :> value) @@ self.dict]

\* The lookups of _build's loop, one per key of attrs.
Lookups(attrs, model_json) ==
    [key \in DOMAIN attrs |-> get_from_dict(model_json, attrs[key])]

\* The keys whose lookup raised an exception that _build does not catch.
Escaping(got) ==
    {key \in DOMAIN got : Raised(got[key]) /\ ~BuildCatches(got[key].exc)}

\* The loop of _build over the outcomes of its lookups: a caught exception
\* sets the attribute to None, any other exception escapes.
Update(self, got) ==
    IF Escaping(got) /= {}
    THEN Raise(got[CHOOSE key \in Escaping(got) : TRUE].exc)
    ELSE Ret([self EXCEPT !.dict =
                [key \in DOMAIN got |->
                   IF Raised(got[key]) THEN None ELSE got[key].v]
                @@ self.dict])

\* ApiObject._build.  Returns the outcome: the updated object, or the
\* exception that escaped.
build(self, model_json) ==
    Update(self, Lookups(self.dict["attrs"], model_json))

\* The attributes __eq__ compares.
EqDictAll(o) == o.dict
EqDict(o) == [k \in DOMAIN o.dict["attrs"] |-> o.dict[k]]

\* ApiObject.__eq__
eq(self, other) ==
    /\ self.cls = other.cls
    /\ EqDict(self) = EqDict(other)

\* ---------------------------------------------------------- record classes
CategoryAttrs ==
    [id_ |-> Str("category_id"), name |-> Str("name"),
     description |-> Str("description")]

CountryAttrs ==
    [id_ |-> Str("country_code"), name |-> Str("name"),
     canonical_url |-> Str("url"), negotiate |-> Str("negotiate"),
     currency |-> Str("currency_code")]

CostAttrs ==
    [id_ |-> Str("category_id"), budget |-> Str("value_budget"),
     midrange |-> Str("value_midrange"), luxury |-> Str("value_luxury"),
     country_id |-> Str("country_code")]

CurrencyAttrs ==
    [id_ |-> Str("currency_code"), name |-> Str("currency"),
     symbol |-> Str("symbol")]

LocationAttrs ==
    [id_ |-> Str("geonameid"), name |-> Str("name"),
     latitude |-> Str("latitude"), longitude |-> Str("longitude"),
     feature_class |-> Str("feature_class"),
     feature_code |-> Str("feature_code"),
     country_code |-> Str("country_code"),
     country_name |-> Str("country_name"),
     admin1_code |-> Str("admin1_code"), negotiate |-> Str("negotiate"),
     currency_code |-> Str("currency_code"), currency |-> Str("currency")]

\* The first statements of every constructor: self._api = api; self.attrs = {...}
NewObj(cls, api, attrs) ==
    [t |-> "obj", cls |-> cls, dict |-> ("_api" :> api @@ "attrs" :> attrs)]

Category(category_json, api) ==
    build(NewObj("Category", api, CategoryAttrs), category_json)

Cost(cost_json, api) ==
    build(NewObj("Cost", api, CostAttrs), cost_json)

Currency(currency_json, api) ==
    build(NewObj("Currency", api, CurrencyAttrs), currency_json)

Location(location_json, api) ==
    build(NewObj("Location", api, LocationAttrs), location_json)

RECURSIVE CostsReversed(_)
CostsReversed(items) ==
    IF items = <<>> THEN Ret(<<>>)
    ELSE Bind(Cost(Head(items), None),
              LAMBDA c : Bind(CostsReversed(Tail(items)),
                              LAMBDA rest : Ret(Append(rest, c))))

RECURSIVE Costs(_)
\* models.py 145-146: for cost_json in ...: self.costs.append(Cost(cost_json))
Costs(items) ==
    IF items = <<>> THEN Ret(<<>>)
    ELSE Bind(Cost(Head(items), None),
              LAMBDA c : Bind(Costs(Tail(items)),
                              LAMBDA rest : Ret(<<c>> \o rest)))

\* Country.__init__
Country(country_json, api) ==
    Bind(Subscript(country_json, "info"), LAMBDA info :
      IF Truthy(info)
      THEN Bind(build(SetAttr(NewObj("Country", api, CountryAttrs),
                              "costs", List(<<>>)),
                      info), LAMBDA self :
           Bind(Subscript(country_json, "costs"), LAMBDA costs :
           Bind(Iter(costs), LAMBDA cost_jsons :
           Bind(Costs(cost_jsons), LAMBDA objs :
           Ret(SetAttr(self, "costs", List(objs)))))))
      ELSE build(SetAttr(NewObj("Country", api, CountryAttrs), "costs", None),
                 country_json))

\* model_class(data, self)
Construct(model_class, data, api) ==
    CASE model_class = "Category" -> Category(data, api)
      [] model_class = "Country"  -> Country(data, api)
      [] model_class = "Cost"     -> Cost(data, api)
      [] model_class = "Currency" -> Currency(data, api)
      [] model_class = "Location" -> Location(data, api)

\* ---------------------------------------------------------- resource client
\* requests.codes.ok
codes_ok == 200

\* response.raise_for_status(): raises HTTPError for a 4xx or 5xx status and
\* returns normally for every other status.
raise_for_status(status) == 400 <= status /\ status < 600

NotFoundAs400(status) == status = 400
\* api.py 48: elif response.status_code == 404
IsNotFound(status) == status = 404

\* api.py 53-57: response.json()['data'], a ValueError swallowed.
json_data(body) ==
    IF body = NotJson THEN Ret(None) ELSE Subscript(body, "data")

\* Api.__get_data
get_data(resp) ==
    IF resp.status = 401
    THEN IF raise_for_status(resp.status)
         THEN Raise("HTTPError") ELSE json_data(resp.body)
    ELSE IF IsNotFound(resp.status)
    THEN Ret(None)
    ELSE IF resp.status /= codes_ok
    THEN IF raise_for_status(resp.status)
         THEN Raise("HTTPError") ELSE json_data(resp.body)
    ELSE json_data(resp.body)

FalsyOnlyNone(x) == x.t = "null"
\* `not data` of api.py 71, 88 and 188
Falsy(x) == ~Truthy(x)

\* Api.__build_response
build_response(resp, model_class) ==
    Bind(get_data(resp), LAMBDA data :
      IF Falsy(data) THEN Ret(None)
      ELSE Construct(model_class, data, ApiSelf))

RECURSIVE Items(_, _)
\* api.py 90-93: items.append(model_class(json_item, self)) for each item
Items(model_class, data) ==
    IF data = <<>> THEN Ret(<<>>)
    ELSE Bind(Construct(model_class, Head(data), ApiSelf),
              LAMBDA item : Bind(Items(model_class, Tail(data)),
                                 LAMBDA rest : Ret(<<item>> \o rest)))

\* Api.__get_multiple
get_multiple(resp, model_class) ==
    Bind(get_data(resp), LAMBDA data :
      IF Falsy(data) THEN Ret(None)
      ELSE Bind(Iter(data), LAMBDA json_items :
           Bind(Items(model_class, json_items), LAMBDA items :
           Ret(List(items)))))

NewAmountWhole(data) == Ret(data)
\* api.py 190: data['newAmount']
NewAmount(data) == Subscript(data, "newAmount")

\* Api.convert_currency, after the request
convert(resp) ==
    Bind(get_data(resp), LAMBDA data :
      IF Falsy(data) THEN Ret(None) ELSE NewAmount(data))

\* ------------------------------------------------------------------ inputs
SeqsUpTo(S, n) == UNION {[1..m -> S] : m \in 0..n}

CatDoc1 ==
    Doc([category_id |-> Num(1), name |-> Str("A"), description |-> Str("d")])
\* a sparse category: no description
CatDoc2 == Doc([category_id |-> Num(2), name |-> Str("B")])
CostDoc1 ==
    Doc([category_id |-> Num(1), value_budget |-> Num(10),
         value_midrange |-> Num(20), value_luxury |-> Num(30),
         country_code |-> Str("U")])
CostDoc2 == Doc([category_id |-> Num(2), value_budget |-> Num(5)])
CurrencyDoc ==
    Doc([currency_code |-> Str("D"), currency |-> Str("C"), symbol |-> Str("$")])
LocationDoc ==
    Doc([geonameid |-> Num(4), name |-> Str("O"), country_code |-> Str("U"),
         currency_code |-> Str("D")])
\* a bare country document: no `info` key
BareCountry ==
    Doc([country_code |-> Str("U"), name |-> Str("N"), url |-> Str("u"),
         negotiate |-> Num(1), currency_code |-> Str("D")])
InfoDoc1 ==
    Doc([country_code |-> Str("G"), name |-> Str("M"), url |-> Str("g"),
         negotiate |-> Num(2), currency_code |-> Str("E")])
InfoDoc2 == Doc([country_code |-> Str("F")])
InfoDocs == {InfoDoc1, InfoDoc2}
CostDocs == {CostDoc1, CostDoc2}

\* {info: ..., costs: [...]}, with top-level fields that differ from info's
Nested(info, costs) ==
    Doc([info |-> info, costs |-> costs,
         country_code |-> Str("T"), name |-> Str("T")])

NestedCountries ==
    {Nested(i, List(c)) : i \in InfoDocs, c \in SeqsUpTo(CostDocs, MaxList)}

\* country payloads off the two documented shapes
OddCountries ==
    {Nested(None, List(<<CostDoc1>>)), Nested(EmptyDoc, List(<<>>)),
     Doc([info |-> InfoDoc1]), Nested(Str("x"), List(<<>>)),
     Nested(InfoDoc1, Num(3)), Nested(InfoDoc1, List(<<Num(1)>>)),
     Nested(InfoDoc1, None)}

ConvertDocs ==
    {Doc([newAmount |-> Num(13)]), Doc([newAmount |-> Num(0)]),
     Doc([amount |-> Num(15)])}

Scalars == {None, Num(0), Num(7), Str(""), Str("x")}

\* the elements of list payloads
ItemDocs ==
    {CatDoc2, CostDoc1, BareCountry,
     Nested(InfoDoc1, List(<<CostDoc1>>)),
     Nested(InfoDoc2, List(<<CostDoc2, CostDoc1>>)), Str("x")}

\* the values of `data` in a body
Payloads ==
    Scalars \cup {EmptyDoc, CatDoc1, CatDoc2, CostDoc1, CurrencyDoc,
                  LocationDoc, BareCountry}
      \cup ConvertDocs \cup NestedCountries \cup OddCountries
      \cup {List(s) : s \in SeqsUpTo(ItemDocs, MaxList)}

\* response bodies: not JSON, the envelope, and JSON without a `data` key
Bodies ==
    {NotJson, EmptyDoc, Doc([error |-> Str("x")])}
      \cup {Doc([data |-> p]) : p \in Payloads}

Statuses == {200, 201, 304, 401, 403, 404, 500}

Responses == [status : Statuses, body : Bodies]

Ids == {"1", "2"}

\* attribute mappings with single-key paths and key-sequence paths
PathKeys == {"x", "y"}
Paths ==
    {Str(k) : k \in PathKeys}
      \cup {List(s) : s \in SeqsUpTo(PathKeys, MaxPath)}
Mappings == [{"a"} -> Paths] \cup [{"a", "b"} -> Paths]

GenDocs ==
    {EmptyDoc,
     Doc([x |-> Num(1), y |-> Num(2)]),
     Doc([x |-> Doc([y |-> Num(2)])]),
     Doc([x |-> Doc([y |-> Doc([x |-> Num(3)])]), y |-> Str("s")]),
     Doc([x |-> Doc([x |-> Doc([y |-> Doc([x |-> Num(0)])])])]),
     Doc([x |-> None, y |-> Num(1)]),
     Doc([x |-> Str("s")]),
     Doc([x |-> List(<<Num(1)>>), y |-> None]),
     Doc([x |-> EmptyDoc]),
     Doc([y |-> Doc([x |-> Num(1), y |-> None])])}

Classes == {"Category", "Country", "Cost", "Currency", "Location"}

\* records as the constructors leave them, with and without the client
EqDocs ==
    {CatDoc1, CatDoc2, CostDoc1, CurrencyDoc, BareCountry,
     Nested(None, List(<<>>)), Nested(InfoDoc1, List(<<>>)),
     Nested(InfoDoc1, List(<<CostDoc1>>)), Nested(InfoDoc2, List(<<CostDoc2>>))}

Records ==
    {o.v : o \in {c \in {Construct(cls, d, api) :
                           cls \in Classes, d \in EqDocs, api \in {None, ApiSelf}} :
                    ~Raised(c)}}

\* ----------------------------------------------------------------- actions
\* Between two calls the caller holds no call, response or result.
Idle ==
    /\ call = [op |-> "none"]
    /\ response = [status |-> 0, body |-> NotJson]
    /\ result = Ret(None)

\* The caller holds no result of an earlier lookup.
NoPrev == [call |-> [op |-> "none"], result |-> Ret(None)]

\* The remote service answers the client's request with any response.
Init ==
    /\ Idle
    /\ remote \in Responses
    /\ gets = 0
    /\ calls = 0
    /\ prev = NoPrev

\* A call starts only when the previous one is over.
CanCall == Idle /\ calls < MaxCalls

\* A client that answers from the response only on its first call.
RequestOnce(op, path, out) ==
    /\ CanCall
    /\ call' = [op |-> op, path |-> path]
    /\ response' = remote
    /\ result' = IF calls = 0 THEN out ELSE Ret(None)
    /\ gets' = gets + 1
    /\ calls' = calls + 1
    /\ UNCHANGED <<remote, prev>>

\* A client that repeats the GET after a failure status.
RequestRetrying(op, path, out) ==
    /\ CanCall
    /\ call' = [op |-> op, path |-> path]
    /\ response' = remote
    /\ result' = out
    /\ gets' = gets + (IF raise_for_status(remote.status) THEN 2 ELSE 1)
    /\ calls' = calls + 1
    /\ UNCHANGED <<remote, prev>>

\* One resource operation: the session performs one GET (api.py 44), which the
\* remote service answers, and the operation ends with the outcome `out`
\* computed from that response.
Request(op, path, out) ==
    /\ CanCall
    /\ call' = [op |-> op, path |-> path]
    /\ response' = remote
    /\ result' = out
    /\ gets' = gets + 1
    /\ calls' = calls + 1
    /\ UNCHANGED <<remote, prev>>

category(id) ==
    Request("category", <<"categories", id>>,
            build_response(remote, "Category"))

categories ==
    Request("categories", <<"categories", "">>,
            get_multiple(remote, "Category"))

currency(currency_code) ==
    Request("currency", <<"currencies", currency_code>>,
            build_response(remote, "Currency"))

currencies ==
    Request("currencies", <<"currencies", "">>,
            get_multiple(remote, "Currency"))

location(geonameid) ==
    Request("location", <<"costs", "locationinfo", geonameid>>,
            build_response(remote, "Location"))

locations_search(search_term) ==
    Request("locations_search", <<"search", "location", search_term>>,
            get_multiple(remote, "Location"))

country_info(country_code) ==
    Request("country_info", <<"costs", "countryinfo", country_code>>,
            build_response(remote, "Country"))

country_search(search_term) ==
    Request("country_search", <<"search", "country", search_term>>,
            get_multiple(remote, "Country"))

country_costs(country_code) ==
    Request("country_costs", <<"costs", "country", country_code>>,
            get_multiple(remote, "Cost"))

location_costs(geonameid) ==
    Request("location_costs", <<"costs", "location", geonameid>>,
            get_multiple(remote, "Cost"))

convert_currency(amount, from_cur, to_cur) ==
    Request("convert_currency",
            <<"currencies", "convert", from_cur, to_cur, amount>>,
            convert(remote))

\* The call has returned or raised: its locals (response, data) are gone and
\* the client keeps nothing of it.  The caller may keep the result of a
\* single-resource lookup, or go on holding the one it kept before.
Return ==
    /\ call.op /= "none"
    /\ call' = [op |-> "none"]
    /\ response' = [status |-> 0, body |-> NotJson]
    /\ result' = Ret(None)
    /\ \/ /\ call.op \in {"category", "currency", "location", "country_info"}
          /\ prev' = [call |-> call, result |-> result]
       \/ UNCHANGED prev
    /\ UNCHANGED <<remote, gets, calls>>

Next ==
    \/ \E id \in Ids : category(id)
    \/ categories
    \/ \E code \in Ids : currency(code)
    \/ currencies
    \/ \E id \in Ids : location(id)
    \/ \E term \in Ids : locations_search(term)
    \/ \E code \in Ids : country_info(code)
    \/ \E term \in Ids : country_search(term)
    \/ \E code \in Ids : country_costs(code)
    \/ \E id \in Ids : location_costs(id)
    \/ \E amount \in {"15"} : convert_currency(amount, "usd", "eur")
    \/ Return

Spec == Init /\ [][Next]_vars

\* ------------------------------------------------- the field mapper alone
\* No request is under way and none is made.
InitPure ==
    /\ Idle
    /\ remote = [status |-> 0, body |-> NotJson]
    /\ gets = 0
    /\ calls = 0
    /\ prev = NoPrev

\* ApiObject._build on a fresh object whose attrs is the mapping m.
BuildCall ==
    /\ Idle
    /\ \E m \in Mappings, d \in GenDocs :
        /\ call' = [op |-> "_build", attrs |-> m, model_json |-> d]
        /\ result' = build(NewObj("ApiObject", None, m), d)
        /\ UNCHANGED <<response, remote, gets, calls, prev>>

SpecBuild == InitPure /\ [][BuildCall]_vars

\* a == b on two records
EqCall ==
    /\ Idle
    /\ \E a \in Records, b \in Records :
        /\ call' = [op |-> "__eq__", self |-> a, other |-> b]
        /\ result' = Ret(Bool(eq(a, b)))
        /\ UNCHANGED <<response, remote, gets, calls, prev>>

SpecEq == InitPure /\ [][EqCall]_vars


\* ------------------------------------------------------- claim vocabulary
SingleOps == {"category", "currency", "location", "country_info"}
MultiOps ==
    {"categories", "currencies", "locations_search", "country_search",
     "country_costs", "location_costs"}
ResourceOps == SingleOps \cup MultiOps \cup {"convert_currency"}

\* The record type each operation asks for (api.py 106-178).
ModelClass(op) ==
    CASE op \in {"category", "categories"} -> "Category"
      [] op \in {"currency", "currencies"} -> "Currency"
      [] op \in {"location", "locations_search"} -> "Location"
      [] op \in {"country_info", "country_search"} -> "Country"
      [] op \in {"country_costs", "location_costs"} -> "Cost"

\* The declared mapping of each record type.
ClassAttrs(cls) ==
    CASE cls = "Category" -> CategoryAttrs
      [] cls = "Country"  -> CountryAttrs
      [] cls = "Cost"     -> CostAttrs
      [] cls = "Currency" -> CurrencyAttrs
      [] cls = "Location" -> LocationAttrs

IsDoc(x) == x.t = "doc"
IsDocList(x) == x.t = "list" /\ \A i \in 1..Len(x.l) : IsDoc(x.l[i])
\* The body is the envelope {"data": ...}.
HasData(body) == IsDoc(body) /\ "data" \in DOMAIN body.d
\* The payload of the response of the call, when it has one.
P == response.body.d["data"]
Returned == result.k = "return"

\* What a path resolves to in a document, None when it does not resolve:
\* stated on the documents, not on the code's lookups.
RECURSIVE Resolves(_, _)
Resolves(d, keys) ==
    \/ keys = <<>>
    \/ /\ IsDoc(d)
       /\ Head(keys) \in DOMAIN d.d
       /\ Resolves(d.d[Head(keys)], Tail(keys))
RECURSIVE ValueAt(_, _)
ValueAt(d, keys) ==
    IF keys = <<>> THEN d ELSE ValueAt(d.d[Head(keys)], Tail(keys))
KeysOf(path) == IF path.t = "list" THEN path.l ELSE <<path.s>>
Expected(attrs, d) ==
    [key \in DOMAIN attrs |->
       IF Resolves(d, KeysOf(attrs[key]))
       THEN ValueAt(d, KeysOf(attrs[key])) ELSE None]
\* The mapped fields of a record: its __dict__ without _api, attrs and costs.
Mapped(o) ==
    [key \in DOMAIN o.dict \ {"_api", "attrs", "costs"} |-> o.dict[key]]
\* o is a record of type cls whose mapped fields are those of document d.
IsRecordOf(o, cls, d) ==
    /\ o.t = "obj"
    /\ o.cls = cls
    /\ Mapped(o) = Expected(ClassAttrs(cls), d)

\* ------------------------------------------------------------------ claims
\* C1: for every mapping m and document d, _build returns (no exception
\* escapes), the mapped fields of the record are exactly the keys of m, every
\* key whose path does not resolve in d (a key missing at any depth, or a
\* non-terminal key resolving to a non-document value) is None and the other
\* fields hold the resolved values.
C1_BuildTotal ==
    call.op = "_build" =>
        /\ Returned
        /\ Mapped(result.v) = Expected(call.attrs, call.model_json)

\* C2: a 404 response makes every resource operation return None without an
\* error, whatever the body.
C2_NotFoundIsNone ==
    (call.op \in ResourceOps /\ response.status = 404) => result = Ret(None)

C2_Witness ==
    /\ call.op = "country_search"
    /\ response.status = 404
    /\ HasData(response.body)
    /\ P = List(<<BareCountry>>)
    /\ result = Ret(None)

\* C3: a 401 response, and every response whose status is neither 2xx nor
\* 404, ends the operation with a request error: nothing is returned.
C3_FailureStatusRaises ==
    (/\ call.op \in ResourceOps
     /\ \/ response.status = 401
        \/ response.status \notin 200..299 \cup {404})
    => result = Raise("HTTPError")

\* C4: a 200 response whose body is not JSON, or is JSON without a top-level
\* `data` key, makes every resource operation return None without an error.
C4_MalformedBodyIsNone ==
    (/\ call.op \in ResourceOps
     /\ response.status = 200
     /\ ~HasData(response.body))
    => result = Ret(None)

\* C5: a country payload without an `info` key builds a Country without an
\* error, its fields mapped from the top-level document and its costs None.
C5_BareCountry ==
    (/\ call.op = "country_info"
     /\ response.status = 200
     /\ HasData(response.body)
     /\ IsDoc(P)
     /\ {"country_code", "name", "url"} \subseteq DOMAIN P.d
     /\ "info" \notin DOMAIN P.d)
    => /\ Returned
       /\ IsRecordOf(result.v, "Country", P)
       /\ result.v.dict["costs"] = None

\* the payload {info: {...}, costs: [...]} with a non-empty info document
NestedShape(p) ==
    /\ IsDoc(p)
    /\ {"info", "costs"} \subseteq DOMAIN p.d
    /\ IsDoc(p.d.info)
    /\ DOMAIN p.d.info.d /= {}
    /\ IsDocList(p.d.costs)

\* o is the Country of p: fields from info, one Cost per element of costs,
\* in order, each with the fields of its element.
CountryOf(o, p) ==
    /\ IsRecordOf(o, "Country", p.d.info)
    /\ "costs" \in DOMAIN o.dict
    /\ o.dict["costs"].t = "list"
    /\ Len(o.dict["costs"].l) = Len(p.d.costs.l)
    /\ \A i \in 1..Len(p.d.costs.l) :
           IsRecordOf(o.dict["costs"].l[i], "Cost", p.d.costs.l[i])

\* C6: for a payload {info: {...}, costs: [...]} the Country takes every
\* mapped field from info and holds one Cost per element of costs, in order;
\* for country_info and for every element of country_search.
C6_NestedCountry ==
    (response.status = 200 /\ HasData(response.body)) =>
        /\ (call.op = "country_info" /\ NestedShape(P))
             => (Returned /\ CountryOf(result.v, P))
        /\ (/\ call.op = "country_search"
            /\ P.t = "list"
            /\ Len(P.l) > 0
            /\ \A i \in 1..Len(P.l) : NestedShape(P.l[i]))
             => /\ Returned
                /\ result.v.t = "list"
                /\ Len(result.v.l) = Len(P.l)
                /\ \A i \in 1..Len(P.l) : CountryOf(result.v.l[i], P.l[i])

C6_Witness ==
    /\ call.op = "country_search"
    /\ response.status = 200
    /\ HasData(response.body)
    /\ P = List(<<Nested(InfoDoc2, List(<<CostDoc2, CostDoc1>>)),
                  Nested(InfoDoc1, List(<<CostDoc1>>))>>)
    /\ Returned
    /\ result.v.l[1].dict["id_"] = Str("F")
    /\ Len(result.v.l[1].dict["costs"].l) = 2
    /\ result.v.l[1].dict["costs"].l[1].dict["budget"] = Num(5)
    /\ result.v.l[2].dict["name"] = Str("M")

\* C7: for a success response whose payload is a non-empty list of documents,
\* every multi-resource operation returns one record of the requested type per
\* document, in the payload's order, the i-th built from the i-th document.
C7_OnePerDocument ==
    (/\ call.op \in MultiOps
     /\ response.status = 200
     /\ HasData(response.body)
     /\ IsDocList(P)
     /\ Len(P.l) > 0)
    => /\ Returned
       /\ result.v.t = "list"
       /\ Len(result.v.l) = Len(P.l)
       /\ \A i \in 1..Len(P.l) :
              /\ result.v.l[i].cls = ModelClass(call.op)
              /\ Construct(ModelClass(call.op), P.l[i], ApiSelf)
                   = Ret(result.v.l[i])

\* the fetch gave nothing: a 404, a body that is not JSON, or an empty or
\* null payload
EmptyFetch ==
    \/ response.status = 404
    \/ /\ response.status \in {200, 201, 304}
       /\ \/ response.body = NotJson
          \/ /\ HasData(response.body)
             /\ P \in {None, List(<<>>), EmptyDoc}

\* C8: when the fetched payload is empty or absent, the single-resource and
\* the multi-resource lookups return None; a multi-resource lookup never
\* returns an empty sequence and a single-resource lookup never builds a
\* record from an empty payload.
C8_EmptyIsNone ==
    (call.op \in SingleOps \cup MultiOps) =>
        /\ EmptyFetch => result = Ret(None)
        /\ result /= Ret(List(<<>>))

C8_Witness ==
    /\ call.op = "categories"
    /\ response.status = 200
    /\ HasData(response.body)
    /\ P = List(<<>>)
    /\ result = Ret(None)

\* C9: convert_currency returns the value of newAmount of the fetched payload
\* when the fetch returned a payload with that field, None when the fetch
\* returned absence, and never a record.
C9_ConvertReturnsNewAmount ==
    (call.op = "convert_currency") =>
        /\ (/\ response.status \in {200, 201, 304}
            /\ HasData(response.body)
            /\ IsDoc(P)
            /\ "newAmount" \in DOMAIN P.d)
             => result = Ret(P.d.newAmount)
        /\ (\/ response.status = 404
            \/ /\ response.status \in {200, 201, 304}
               /\ \/ response.body = NotJson
                  \/ HasData(response.body) /\ P = None)
             => result = Ret(None)
        /\ Returned => result.v.t /= "obj"

C9_Witness ==
    /\ call.op = "convert_currency"
    /\ response.status = 200
    /\ HasData(response.body)
    /\ P = Doc([newAmount |-> Num(0)])
    /\ result = Ret(Num(0))

\* C10: two records are equal iff they have the same type and the same value
\* for every mapped field, whatever their _api and costs.
C10_EqIsTypeAndFields ==
    (call.op = "__eq__") =>
        (result.v.b <=>
            /\ call.self.cls = call.other.cls
            /\ \A key \in DOMAIN ClassAttrs(call.self.cls) :
                   call.self.dict[key] = call.other.dict[key])

C10_Witness ==
    /\ call.op = "__eq__"
    /\ call.self.cls = "Country"
    /\ call.other.cls = "Country"
    /\ call.self.dict["_api"] /= call.other.dict["_api"]
    /\ call.self.dict["costs"] /= call.other.dict["costs"]
    /\ result.v.b

\* The two outcomes are the same for the caller: the same error, None twice,
\* or two records equal by __eq__.
SameResult(a, b) ==
    \/ Raised(a) /\ a = b
    \/ a = Ret(None) /\ b = Ret(None)
    \/ /\ ~Raised(a) /\ ~Raised(b)
       /\ a.v.t = "obj" /\ b.v.t = "obj"
       /\ eq(a.v, b.v)

\* The call under way repeats the lookup whose result the caller kept.
Repeats ==
    /\ call.op \in SingleOps
    /\ prev.call.op = call.op
    /\ prev.call.path = call.path

Starts == call.op = "none" /\ call'.op \in ResourceOps

\* The three ways an operation ends.
Outcome(o) ==
    CASE Raised(o)     -> "error"
      [] o = Ret(None) -> "absent"
      [] OTHER         -> "result"

\* C12: every step that starts a resource operation issues exactly one GET
\* through the session, whatever the status and the body of the response, and
\* the operation ends raised, with None, or with a constructed result (a
\* record, a list of records, or the converted amount); the step that ends
\* the call issues no GET.
C12_SingleAttempt ==
    [][/\ Starts =>
            /\ gets' = gets + 1
            /\ \/ Raised(result')
               \/ result' = Ret(None)
               \/ /\ call'.op \in SingleOps
                  /\ result'.v.t = "obj"
                  /\ result'.v.cls = ModelClass(call'.op)
               \/ /\ call'.op \in MultiOps
                  /\ result'.v.t = "list"
                  /\ \A i \in 1..Len(result'.v.l) :
                         result'.v.l[i].cls = ModelClass(call'.op)
               \/ /\ call'.op = "convert_currency"
                  /\ result'.v = response'.body.d["data"].d.newAmount
       /\ ~Starts => gets' = gets]_vars

\* the second of two operations, answered 401: two GETs in all, one for each
C12_Witness ==
    /\ calls = 2
    /\ gets = 2
    /\ call.op = "convert_currency"
    /\ response.status = 401
    /\ result = Raise("HTTPError")

====
